---- MODULE Spec2Model ----
(***************************************************************************)
(* A model of vishnu_cgpa_bot.py: the CGPAExtractor (get_cgpa, the POST    *)
(* path, the GET fallback, the HTML extractor) and the two Telegram text   *)
(* handlers with the per-user session (context.user_data).                 *)
(*                                                                         *)
(* Python strings are sequences of one-character strings; a dict is a      *)
(* function whose DOMAIN is its set of keys; None / "no match" of a string *)
(* valued expression is the empty sequence where the code can only produce *)
(* a non-empty string.  A parsed HTML page is a sequence of blocks (text,  *)
(* element, table, form, input), which is what BeautifulSoup hands to the  *)
(* code; its parser is taken as given.                                     *)
(***************************************************************************)
EXTENDS Integers, Sequences, FiniteSets, TLC

(***************************************************************************)
(* Characters and the str methods the code uses.                           *)
(***************************************************************************)
UpperLetters == <<"A", "B", "C", "D", "E", "F", "G", "H", "I", "J", "K", "L", "M",
                  "N", "O", "P", "Q", "R", "S", "T", "U", "V", "W", "X", "Y", "Z">>

LowerLetters == <<"a", "b", "c", "d", "e", "f", "g", "h", "i", "j", "k", "l", "m",
                  "n", "o", "p", "q", "r", "s", "t", "u", "v", "w", "x", "y", "z">>

DigitChars == <<"0", "1", "2", "3", "4", "5", "6", "7", "8", "9">>

Range(f) == {f[i] : i \in DOMAIN f}

\* \s of the re module and the characters str.strip() removes
Whitespace == {" ", "\t", "\n"}

IsDigit(c) == c \in Range(DigitChars)

IsAlnum(c) == c \in Range(UpperLetters) \cup Range(LowerLetters) \cup Range(DigitChars)

LowerChar(c) ==
    IF c \in Range(UpperLetters)
    THEN LowerLetters[CHOOSE i \in DOMAIN UpperLetters : UpperLetters[i] = c]
    ELSE c

UpperChar(c) ==
    IF c \in Range(LowerLetters)
    THEN UpperLetters[CHOOSE i \in DOMAIN LowerLetters : LowerLetters[i] = c]
    ELSE c

\* str.lower()
lower(s) == [i \in 1..Len(s) |-> LowerChar(s[i])]

\* str.upper()
upper(s) == [i \in 1..Len(s) |-> UpperChar(s[i])]

\* str.strip(): leading and trailing whitespace removed
strip(s) ==
    LET keep == {i \in 1..Len(s) : s[i] \notin Whitespace}
    IN  IF keep = {} THEN <<>>
        ELSE LET lo == CHOOSE i \in keep : \A j \in keep : i <= j
                 hi == CHOOSE i \in keep : \A j \in keep : j <= i
             IN  SubSeq(s, lo, hi)

\* the character at position i, or "" past either end
At(s, i) == IF i \in 1..Len(s) THEN s[i] ELSE ""

\* p occurs in s starting at position i
IsSubAt(s, p, i) ==
    /\ i >= 1
    /\ i + Len(p) - 1 <= Len(s)
    /\ \A k \in 1..Len(p) : s[i + k - 1] = p[k]

\* Python's `p in s`
Contains(s, p) == \E i \in 1..(Len(s) + 1) : IsSubAt(s, p, i)

Min(S) == CHOOSE x \in S : \A y \in S : x <= y

(***************************************************************************)
(* The regular expressions of the code, matched as re.search matches them: *)
(* leftmost start, greedy \s* \d+ \d*, lazy .*? (shortest gap first, "."   *)
(* not matching a newline).  A failed search is the empty sequence: every  *)
(* group, a number \d+\.?\d* , that matches holds at least one digit.      *)
(***************************************************************************)
\* first position >= i that holds no whitespace
SkipWs(s, i) ==
    Min({j \in i..(Len(s) + 1) : At(s, j) \notin Whitespace})

\* first position >= i that holds no digit
SkipDigits(s, i) ==
    Min({j \in i..(Len(s) + 1) : ~IsDigit(At(s, j))})

\* NUM anchored at a digit at position i: the position after the match
NumberEnd(s, i) ==
    LET e == SkipDigits(s, i)
    IN  IF At(s, e) = "." THEN SkipDigits(s, e + 1) ELSE e

\* \s*:?\s*NUM anchored at position i: group 1, or <<>>
ValueTail(s, i) ==
    LET j1 == SkipWs(s, i)
        j2 == IF At(s, j1) = ":" THEN SkipWs(s, j1 + 1) ELSE j1
    IN  IF IsDigit(At(s, j2)) THEN SubSeq(s, j2, NumberEnd(s, j2) - 1) ELSE <<>>

\* re.search for a number NUM = \d+\.?\d* in s: group 1 of the leftmost match, or <<>>
number_match(s) ==
    LET starts == {i \in 1..Len(s) : IsDigit(s[i])}
    IN  IF starts = {} THEN <<>>
        ELSE SubSeq(s, Min(starts), NumberEnd(s, Min(starts)) - 1)

\* .*?parts[k].*?parts[k+1]...\s*:?\s*NUM anchored at position i
RECURSIVE LazyMatch(_, _, _, _)
LazyMatch(s, parts, k, i) ==
    IF k > Len(parts) THEN ValueTail(s, i)
    ELSE LET ends == {j \in i..Len(s) :
                        /\ IsSubAt(s, parts[k], j)
                        /\ \A m \in i..(j - 1) : s[m] # "\n"
                        /\ LazyMatch(s, parts, k + 1, j + Len(parts[k])) # <<>>}
         IN  IF ends = {} THEN <<>>
             ELSE LazyMatch(s, parts, k + 1, Min(ends) + Len(parts[k]))

\* re.search of parts[1].*?parts[2]...\s*:?\s*NUM: group 1, or <<>>
SearchLabelled(s, parts) ==
    LET starts == {i \in 1..Len(s) :
                     /\ IsSubAt(s, parts[1], i)
                     /\ LazyMatch(s, parts, 2, i + Len(parts[1])) # <<>>}
    IN  IF starts = {} THEN <<>>
        ELSE LazyMatch(s, parts, 2, Min(starts) + Len(parts[1]))

\* c\.?g\.?p\.?a\.? anchored at position i: the position after it, or 0
RECURSIVE DottedEnd(_, _, _, _)
DottedEnd(s, letters, k, i) ==
    IF k > Len(letters) THEN i
    ELSE IF At(s, i) # letters[k] THEN 0
    ELSE DottedEnd(s, letters, k + 1, IF At(s, i + 1) = "." THEN i + 2 ELSE i + 1)

\* re.search(r'c\.?g\.?p\.?a\.?\s*:?\s*NUM', s): group 1, or <<>>
SearchDotted(s) ==
    LET letters == <<"c", "g", "p", "a">>
        starts == {i \in 1..Len(s) :
                     /\ DottedEnd(s, letters, 1, i) # 0
                     /\ ValueTail(s, DottedEnd(s, letters, 1, i)) # <<>>}
    IN  IF starts = {} THEN <<>>
        ELSE ValueTail(s, DottedEnd(s, letters, 1, Min(starts)))

(***************************************************************************)
(* float(...) of a matched number and str(...) of the float.  A matched    *)
(* number is digits, an optional ".", digits.                              *)
(***************************************************************************)
DigitValue(c) == (CHOOSE i \in DOMAIN DigitChars : DigitChars[i] = c) - 1

IntDigits(g) ==
    IF \E i \in 1..Len(g) : g[i] = "."
    THEN SubSeq(g, 1, Min({i \in 1..Len(g) : g[i] = "."}) - 1)
    ELSE g

FracDigits(g) ==
    IF \E i \in 1..Len(g) : g[i] = "."
    THEN SubSeq(g, Min({i \in 1..Len(g) : g[i] = "."}) + 1, Len(g))
    ELSE <<>>

RECURSIVE IntValue(_)
IntValue(ds) ==
    IF ds = <<>> THEN 0
    ELSE 10 * IntValue(SubSeq(ds, 1, Len(ds) - 1)) + DigitValue(ds[Len(ds)])

\* 0 <= float(g) <= 10
InCgpaRange(g) ==
    \/ IntValue(IntDigits(g)) < 10
    \/ /\ IntValue(IntDigits(g)) = 10
       /\ \A i \in 1..Len(FracDigits(g)) : FracDigits(g)[i] = "0"

\* str(float(g)): no leading zeros, no trailing zeros, at least one digit on
\* each side of the point (the form repr gives for 0.0001 <= value <= 10)
str_float(g) ==
    LET ip == IntDigits(g)
        fp == FracDigits(g)
        nz == {i \in 1..Len(ip) : ip[i] # "0"}
        fz == {i \in 1..Len(fp) : fp[i] # "0"}
        ip2 == IF nz = {} THEN <<"0">> ELSE SubSeq(ip, Min(nz), Len(ip))
        fp2 == IF fz = {} THEN <<"0">>
               ELSE SubSeq(fp, 1, CHOOSE i \in fz : \A j \in fz : j <= i)
    IN  ip2 \o <<".">> \o fp2

(***************************************************************************)
(* Parsed HTML.  A page is a sequence of blocks in document order:         *)
(*   [k |-> "text", text]                  a bare text node                *)
(*   [k |-> "el", tag, class, text]        an element holding text         *)
(*   [k |-> "table", rows]                 rows of cells [tag, class, text]*)
(*   [k |-> "form", attrs]                 a form tag and its attributes   *)
(*   [k |-> "input", attrs]                an input tag and its attributes *)
(* class is the class attribute, <<>> when the element has none.           *)
(***************************************************************************)
TextNode(t) == [k |-> "text", text |-> t]

Element(tag, cls, t) == [k |-> "el", tag |-> tag, class |-> cls, text |-> t]

Cell(tag, cls, t) == [tag |-> tag, class |-> cls, text |-> t]

Table(rows) == [k |-> "table", rows |-> rows]

FormTag(attrs) == [k |-> "form", attrs |-> attrs]

InputTag(attrs) == [k |-> "input", attrs |-> attrs]

RECURSIVE Flatten(_)
Flatten(seqs) == IF seqs = <<>> THEN <<>> ELSE Head(seqs) \o Flatten(Tail(seqs))

\* the elements of a page that carry text, in document order
RECURSIVE Elements(_)
Elements(blocks) ==
    IF blocks = <<>> THEN <<>>
    ELSE LET b == Head(blocks)
             own == IF b.k = "el" THEN <<Cell(b.tag, b.class, b.text)>>
                    ELSE IF b.k = "table" THEN Flatten(b.rows)
                    ELSE IF b.k = "text" THEN <<Cell("", <<>>, b.text)>>
                    ELSE <<>>
         IN  own \o Elements(Tail(blocks))

\* soup.get_text(): the text nodes of the page, concatenated
get_text(html) ==
    LET els == Elements(html)
    IN  Flatten([i \in 1..Len(els) |-> els[i].text])

(***************************************************************************)
(* CGPAExtractor._extract_cgpa_from_html                                   *)
(***************************************************************************)
\* a message: the f-string's text and the values it interpolates
Msg(text, args) == [text |-> text, args |-> args]

error_indicators_without_not_found ==
    << <<"i", "n", "v", "a", "l", "i", "d">>,
       <<"e", "r", "r", "o", "r">>,
       <<"n", "o", " ", "r", "e", "s", "u", "l", "t", "s">>,
       <<"n", "o", " ", "r", "e", "c", "o", "r", "d">> >>

error_indicators ==
    << <<"n", "o", "t", " ", "f", "o", "u", "n", "d">>,
       <<"i", "n", "v", "a", "l", "i", "d">>,
       <<"e", "r", "r", "o", "r">>,
       <<"n", "o", " ", "r", "e", "s", "u", "l", "t", "s">>,
       <<"n", "o", " ", "r", "e", "c", "o", "r", "d">> >>

\* soup.get_text().lower()
text_content(html) == lower(get_text(html))

\* for indicator in error_indicators: if indicator in text_content
HasErrorIndicator(text) ==
    \E i \in DOMAIN error_indicators : Contains(text, error_indicators[i])

\* the six patterns, each a label (literal parts joined by .*?, or the dotted
\* c.g.p.a. form) followed by \s*:?\s*NUM
cgpa_patterns ==
    << [kind |-> "lazy", parts |-> << <<"c", "g", "p", "a">> >>],
       [kind |-> "dotted", parts |-> <<>>],
       [kind |-> "lazy", parts |-> << <<"c", "u", "m", "u", "l", "a", "t", "i", "v", "e">>,
                                      <<"g", "r", "a", "d", "e">>,
                                      <<"p", "o", "i", "n", "t">>,
                                      <<"a", "v", "e", "r", "a", "g", "e">> >>],
       [kind |-> "lazy", parts |-> << <<"o", "v", "e", "r", "a", "l", "l">>, <<"g", "p", "a">> >>],
       [kind |-> "lazy", parts |-> << <<"f", "i", "n", "a", "l">>, <<"c", "g", "p", "a">> >>],
       [kind |-> "lazy", parts |-> << <<"t", "o", "t", "a", "l">>, <<"c", "g", "p", "a">> >>] >>

\* re.search(pattern, text_content, re.IGNORECASE) on the lower-cased text
PatternSearch(p, text) ==
    IF p.kind = "dotted" THEN SearchDotted(text) ELSE SearchLabelled(text, p.parts)

\* Strategy 1: the first pattern that matches gives match.group(1), unchecked
Strategy1(text) ==
    LET hits == {i \in DOMAIN cgpa_patterns : PatternSearch(cgpa_patterns[i], text) # <<>>}
    IN  IF hits = {} THEN <<>>
        ELSE PatternSearch(cgpa_patterns[Min(hits)], text)

\* re.compile(r'cgpa|gpa|grade', re.I) searched in a class attribute
ClassMatches(cls) ==
    \/ Contains(lower(cls), <<"c", "g", "p", "a">>)
    \/ Contains(lower(cls), <<"g", "p", "a">>)
    \/ Contains(lower(cls), <<"g", "r", "a", "d", "e">>)

\* soup.find_all(['span', 'div', 'td', 'p'], attrs={'class': ...})
cgpa_elements(html) ==
    SelectSeq(Elements(html),
              LAMBDA e : e.tag \in {"span", "div", "td", "p"} /\ ClassMatches(e.class))

\* the first number of a text, as str(float) if 0 <= float <= 10, else <<>>
AcceptedNumber(t) ==
    LET g == number_match(t)
    IN  IF g # <<>> /\ InCgpaRange(g) THEN str_float(g) ELSE <<>>

\* Strategy 2: the first class-tagged element whose first number is in range
Strategy2(html) ==
    LET els == cgpa_elements(html)
        hits == {i \in 1..Len(els) : AcceptedNumber(strip(els[i].text)) # <<>>}
    IN  IF hits = {} THEN <<>>
        ELSE AcceptedNumber(strip(els[Min(hits)].text))

\* any(keyword in cell_text for keyword in ['cgpa', 'gpa', 'grade point'])
HasCgpaKeyword(cell_text) ==
    \/ Contains(cell_text, <<"c", "g", "p", "a">>)
    \/ Contains(cell_text, <<"g", "p", "a">>)
    \/ Contains(cell_text, <<"g", "r", "a", "d", "e", " ", "p", "o", "i", "n", "t">>)

\* the body of `for i, cell in enumerate(cells)`: the cgpa cell i yields, or <<>>
CellCgpa(cells, i) ==
    LET cell_text == lower(cells[i].text)
        next == IF HasCgpaKeyword(cell_text) /\ i + 1 <= Len(cells)
                THEN AcceptedNumber(strip(cells[i + 1].text))
                ELSE <<>>
    IN  IF next # <<>> THEN next
        ELSE IF Contains(cell_text, <<"c", "g", "p", "a">>) THEN AcceptedNumber(cell_text)
        ELSE <<>>

\* one row: the first cell that yields a cgpa ends the loop over the cells
RowCgpa(cells) ==
    LET hits == {i \in 1..Len(cells) : CellCgpa(cells, i) # <<>>}
    IN  IF hits = {} THEN <<>> ELSE CellCgpa(cells, Min(hits))

\* Strategy 3: tables, rows and cells in document order, first hit wins
Strategy3(html) ==
    LET tables == SelectSeq(html, LAMBDA b : b.k = "table")
        rows == Flatten([i \in 1..Len(tables) |-> tables[i].rows])
        hits == {i \in 1..Len(rows) : RowCgpa(rows[i]) # <<>>}
    IN  IF hits = {} THEN <<>> ELSE RowCgpa(rows[Min(hits)])

not_found_result(roll_number) ==
    [success |-> FALSE,
     message |-> Msg("Roll number {roll_number} not found or results unavailable.",
                     <<roll_number>>)]

found_result(html, roll_number, cgpa) ==
    [success |-> TRUE,
     cgpa |-> cgpa,
     html_content |-> html,
     message |-> Msg("CGPA for roll number {roll_number}: {cgpa}", <<roll_number, cgpa>>)]

format_result(roll_number) ==
    [success |-> FALSE,
     message |-> Msg("CGPA information not found for roll number {roll_number}. The results page might have a different format than expected.",
                     <<roll_number>>)]

\* `if not cgpa:` before strategies 2 and 3: the next strategy runs only
\* while cgpa is still None
OrElse(cgpa, next) == IF cgpa # <<>> THEN cgpa ELSE next

\* what the function finds in a page: an error indicator, or the cgpa of the
\* first strategy that yields one (<<>> if none does)
Extraction(html) ==
    IF HasErrorIndicator(text_content(html)) THEN [error |-> TRUE, cgpa |-> <<>>]
    ELSE [error |-> FALSE,
          cgpa |-> OrElse(OrElse(Strategy1(text_content(html)), Strategy2(html)),
                          Strategy3(html))]

(***************************************************************************)
(* Pages the results site can answer with.  The extractor and the form     *)
(* discovery read any page; these cover each branch of both.               *)
(***************************************************************************)
RESULTS_URL == <<"h", "t", "t", "p", "s", ":", "/", "/", "v", "i", "s", "h", "n", "u", ".", "e", "d", "u", ".", "i", "n", "/", "R", "e", "s", "u", "l", "t", "s", ".", "p", "h", "p">>

\* a form posting to a site-relative action, a rollno field, a named submit button
page_form_rollno ==
    << FormTag([action |-> <<"/", "R", "e", "s", "u", "l", "t", "s", ".", "p", "h", "p">>]),
       InputTag([type |-> "text", name |-> "rollno"]),
       InputTag([type |-> "submit", name |-> "btn", value |-> "Get Result"]) >>

\* a form without action, its only field a text input of another name
page_form_text_input ==
    << TextNode(<<"R", "e", "s", "u", "l", "t", "s">>),
       FormTag(<<>>),
       InputTag([type |-> "text", name |-> "htno"]),
       InputTag([type |-> "submit"]) >>

\* a form whose text input has no name
page_form_no_field ==
    << FormTag([action |-> <<"r", "e", "s", "u", "l", "t", ".", "p", "h", "p">>]),
       InputTag([type |-> "text"]) >>

\* no form at all
page_no_form ==
    << Element("p", <<>>, <<"R", "e", "s", "u", "l", "t", "s">>) >>

\* a labelled value in the text
page_text_cgpa ==
    << Element("p", <<>>, <<"N", "a", "m", "e", ":", " ", "A">>), TextNode(<<"\n">>),
       Element("p", <<>>, <<"C", "G", "P", "A", ":", " ", "8", ".", "4", "5">>) >>

\* a labelled value out of range
page_text_cgpa_12 ==
    << Element("p", <<>>, <<"C", "G", "P", "A", ":", " ", "1", "2", ".", "0">>) >>

\* the dotted label, an integer value
page_text_dotted ==
    << Element("div", <<>>, <<"C", ".", "G", ".", "P", ".", "A", ".", ":", " ", "7">>) >>

\* the overall ... gpa label
page_text_overall ==
    << Element("p", <<>>, <<"O", "v", "e", "r", "a", "l", "l", " ", "G", "P", "A", " ", "8", ".", "2">>) >>

\* an unlabelled value in a class-tagged element
page_class ==
    << Element("span", <<"g", "p", "a", "-", "v", "a", "l", "u", "e">>, <<" ", "7", ".", "5", " ">>) >>

\* a class-tagged element out of range, then one in range
page_class_skip ==
    << Element("div", <<"g", "r", "a", "d", "e", "-", "b", "o", "x">>, <<"8", "5">>), TextNode(<<"\n">>),
       Element("span", <<"C", "g", "p", "a">>, <<"9">>) >>

\* a class-tagged element out of range only
page_class_12 ==
    << Element("span", <<"g", "r", "a", "d", "e", "-", "b", "o", "x">>, <<"1", "2", ".", "0">>) >>

\* a table: keyword cell, value in the next cell
page_table ==
    << Table(<< << Cell("th", <<>>, <<"S", "e", "m">>), Cell("th", <<>>, <<"M", "a", "r", "k", "s">>) >>,
                << Cell("td", <<>>, <<"G", "P", "A">>), Cell("td", <<>>, <<" ", "0", "8", ".", "5", "0">>) >> >>) >>

\* a table: keyword and value in the same cell
page_table_same_cell ==
    << Table(<< << Cell("td", <<>>, <<"C", "G", "P", "A", " ", "-", " ", "9", ".", "1">>) >> >>) >>

\* a table: the value in the next cell out of range
page_table_12 ==
    << Table(<< << Cell("td", <<>>, <<"G", "r", "a", "d", "e", " ", "P", "o", "i", "n", "t">>), Cell("td", <<>>, <<"1", "2", ".", "0">>) >> >>) >>

\* an error phrase beside a labelled value
page_not_found ==
    << Element("p", <<>>, <<"R", "o", "l", "l", " ", "n", "u", "m", "b", "e", "r", " ", "n", "o", "t", " ", "f", "o", "u", "n", "d">>), TextNode(<<"\n">>),
       Element("p", <<>>, <<"C", "G", "P", "A", ":", " ", "8", ".", "4", "5">>) >>

\* an error phrase beside a class-tagged element and a table
page_invalid ==
    << Element("span", <<"g", "p", "a", "-", "v", "a", "l", "u", "e">>, <<"7", ".", "5">>),
       Table(<< << Cell("td", <<>>, <<"G", "P", "A">>), Cell("td", <<>>, <<"8">>) >> >>),
       Element("p", <<>>, <<"I", "n", "v", "a", "l", "i", "d", " ", "H", "a", "l", "l", " ", "T", "i", "c", "k", "e", "t">>) >>

\* nothing that looks like a CGPA
page_plain ==
    << Element("p", <<>>, <<"M", "a", "r", "k", "s", " ", "8", "5">>) >>

FormPages == {page_form_rollno, page_form_text_input, page_form_no_field, page_no_form}

ResultPages ==
    {page_text_cgpa, page_text_cgpa_12, page_text_dotted, page_text_overall,
     page_class, page_class_skip, page_class_12,
     page_table, page_table_same_cell, page_table_12,
     page_not_found, page_invalid, page_plain}

Pages == FormPages \cup ResultPages

\* Extraction of every page, computed once
ExtractionOf == [html \in Pages |-> Extraction(html)]

\* lines 197-202 and 273-286: the dict returned for what was found
ExtractionResult(found, html, roll_number) ==
    IF found.error THEN not_found_result(roll_number)
    ELSE IF found.cgpa # <<>> THEN found_result(html, roll_number, found.cgpa)
    ELSE format_result(roll_number)

\* the whole function: error check, then the strategies while cgpa is None
_extract_cgpa_from_html(html, roll_number) ==
    ExtractionResult(ExtractionOf[html], html, roll_number)

\* roll numbers handed to the extractor
ExtractRolls == {<<"2", "1", "A", "9">>, <<"A", "1">>}

(***************************************************************************)
(* State.                                                                  *)
(***************************************************************************)
VARIABLES
    ex,                 \* the frame of one _extract_cgpa_from_html call, stepped
    pc,                 \* where the get_cgpa call in progress stands
    roll_number,        \* get_cgpa's roll_number after strip().upper()
    form,               \* the action URL and form_data the POST path prepared
    param,              \* the index in possible_params the GET fallback is at
    result,             \* get_cgpa's `result`, and at "done" its return value
    requests,           \* the HTTP requests the call has issued, in order
    now,                \* the clock
    last_request_time,  \* <<t>>: the last HTTP request of the process was sent at t
    user_data,          \* context.user_data of every user
    update,             \* the text message a handler is working on
    replies             \* what the handler of the last update sent to its user

extractor_vars == <<pc, roll_number, form, param, result, requests, now, last_request_time>>

bot_vars == <<user_data, update, replies>>

vars == <<ex, pc, roll_number, form, param, result, requests, now, last_request_time,
          user_data, update, replies>>

\* the latest time the clock reaches
MaxTime == 2

Users == {"u1", "u2"}

\* a key a dict does not hold; a key that is present holds <<value>>
Absent == <<>>

\* context.user_data of a user who has sent nothing yet
EmptySession ==
    [awaiting_pdf_confirmation |-> Absent, roll_number |-> Absent, html_content |-> Absent]

\* no message has arrived yet
NoUpdate == [user |-> "", text |-> <<>>, awaiting |-> FALSE, handler |-> "", outcome |-> ""]

\* the state in which nothing has been called yet
Idle ==
    /\ pc = "idle"
    /\ roll_number = <<>>
    /\ form = <<>>
    /\ param = 0
    /\ result = <<>>
    /\ requests = <<>>
    /\ now = 0
    /\ last_request_time = <<>>
    /\ user_data = [u \in Users |-> EmptySession]
    /\ update = NoUpdate
    /\ replies = <<>>

ExIdle ==
    ex = [pc |-> "idle", html |-> <<>>, roll_number |-> <<>>, cgpa |-> <<>>,
          tried |-> <<>>, result |-> <<>>]

(***************************************************************************)
(* _extract_cgpa_from_html step by step: the error check, the three        *)
(* strategies, the return.  tried lists the strategies that ran.           *)
(***************************************************************************)
ExInit ==
    /\ ex \in [pc : {"error_check"}, html : Pages, roll_number : ExtractRolls,
               cgpa : {<<>>}, tried : {<<>>}, result : {<<>>}]
    /\ Idle

ExErrorCheck ==
    /\ ex.pc = "error_check"
    /\ ex' = IF HasErrorIndicator(text_content(ex.html))
             THEN [ex EXCEPT !.pc = "done", !.result = not_found_result(ex.roll_number)]
             ELSE [ex EXCEPT !.pc = "strategy1"]
    /\ UNCHANGED <<extractor_vars, bot_vars>>

ExStrategy1 ==
    /\ ex.pc = "strategy1"
    /\ ex' = [ex EXCEPT !.pc = "strategy2",
                        !.cgpa = Strategy1(text_content(ex.html)),
                        !.tried = Append(@, 1)]
    /\ UNCHANGED <<extractor_vars, bot_vars>>

ExStrategy2 ==
    /\ ex.pc = "strategy2"
    /\ ex' = IF ex.cgpa = <<>>
             THEN [ex EXCEPT !.pc = "strategy3",
                             !.cgpa = Strategy2(ex.html),
                             !.tried = Append(@, 2)]
             ELSE [ex EXCEPT !.pc = "strategy3"]
    /\ UNCHANGED <<extractor_vars, bot_vars>>

ExStrategy3 ==
    /\ ex.pc = "strategy3"
    /\ ex' = IF ex.cgpa = <<>>
             THEN [ex EXCEPT !.pc = "return",
                             !.cgpa = Strategy3(ex.html),
                             !.tried = Append(@, 3)]
             ELSE [ex EXCEPT !.pc = "return"]
    /\ UNCHANGED <<extractor_vars, bot_vars>>

ExReturn ==
    /\ ex.pc = "return"
    /\ ex' = [ex EXCEPT !.pc = "done",
                        !.result = IF ex.cgpa # <<>>
                                   THEN found_result(ex.html, ex.roll_number, ex.cgpa)
                                   ELSE format_result(ex.roll_number)]
    /\ UNCHANGED <<extractor_vars, bot_vars>>

ExNext == ExErrorCheck \/ ExStrategy1 \/ ExStrategy2 \/ ExStrategy3 \/ ExReturn

SpecExtract == ExInit /\ [][ExNext]_vars

\* the stepped function and the operator the callers use agree
ExAgrees ==
    ex.pc = "done" => ex.result = _extract_cgpa_from_html(ex.html, ex.roll_number)

(***************************************************************************)
(* Properties of the extractor, under SpecExtract.                         *)
(***************************************************************************)
\* C2: every outcome of _extract_cgpa_from_html has success = true if and only
\* if it holds a cgpa with 0 <= cgpa <= 10, whichever strategy produced it.
C2_SuccessIffCgpaInRange ==
    ex.pc = "done" =>
        (ex.result.success <=>
            ("cgpa" \in DOMAIN ex.result /\ InCgpaRange(ex.result.cgpa)))

\* the negative-result phrases the specification and the code both name
C3_NegativePhrases ==
    {<<"n", "o", "t", " ", "f", "o", "u", "n", "d">>,
     <<"i", "n", "v", "a", "l", "i", "d">>,
     <<"n", "o", " ", "r", "e", "c", "o", "r", "d">>}

C3_HasNegativePhrase(html) ==
    \E p \in C3_NegativePhrases : Contains(lower(get_text(html)), p)

\* C3: when the visible text holds a negative-result phrase, no strategy is
\* consulted and the outcome is success = false with a message that holds the
\* roll number, whatever CGPA-shaped content the page also has.
C3_ErrorPhraseWins ==
    (ex.pc # "idle" /\ C3_HasNegativePhrase(ex.html)) =>
        /\ ex.pc \in {"error_check", "done"}
        /\ ex.tried = <<>>
        /\ ex.pc = "done" =>
            /\ ex.result.success = FALSE
            /\ "cgpa" \notin DOMAIN ex.result
            /\ \E i \in DOMAIN ex.result.message.args :
                   ex.result.message.args[i] = ex.roll_number

\* a finished extraction of a page with an error phrase that also holds a
\* labelled CGPA in its text, or a class-tagged value and a table value
C3_Witness ==
    /\ ex.pc = "done"
    /\ C3_HasNegativePhrase(ex.html)
    /\ \/ Strategy1(text_content(ex.html)) # <<>>
       \/ Strategy2(ex.html) # <<>> /\ Strategy3(ex.html) # <<>>
    /\ ex.result.success = FALSE

(***************************************************************************)
(* CGPAExtractor.get_cgpa, _try_post_request and _try_get_request.         *)
(*                                                                         *)
(* A response is a transport failure (the exception session.get/post or    *)
(* raise_for_status raises) or a page.  An exception on its way up is the  *)
(* value Raise(exc); each try/except turns it into the dict its handler    *)
(* returns.  requests.get blocks the event loop, so one call is in         *)
(* progress at a time; pc is its position:                                 *)
(*   "idle"      no call                                                   *)
(*   "try_post"  before session.get(RESULTS_URL) of the POST path          *)
(*   "post_form" before session.post(action, data=form_data)               *)
(*   "try_get"   before session.get(url) for possible_params[param]        *)
(*   "done"      returned, result is the return value                      *)
(*   "raised"    an exception left get_cgpa                                *)
(***************************************************************************)
\* requests.exceptions.RequestException subclasses a request can raise
TransportFailures == {"Timeout", "ConnectionError", "HTTPError"}

\* the pages the site answers get_cgpa's requests with
UpstreamPages ==
    {page_form_rollno, page_form_text_input, page_form_no_field, page_no_form,
     page_text_cgpa, page_text_cgpa_12, page_class, page_not_found, page_plain}

Responses ==
    {[error |-> e, text |-> <<>>] : e \in TransportFailures}
        \cup {[error |-> "", text |-> p] : p \in UpstreamPages}

Raise(exc) == [raise |-> exc]

IsRaise(v) == "raise" \in DOMAIN v

possible_field_names == <<"rollno", "roll_no", "regdno", "regno", "student_id", "rollnumber">>

possible_params_with_rollnumber ==
    <<"rollno", "roll_no", "regdno", "regno", "student_id", "rollnumber">>

possible_params == <<"rollno", "roll_no", "regdno", "regno", "student_id">>

\* tag.get(name): the attribute, "" standing for None
Attr(tag, name) == IF name \in DOMAIN tag.attrs THEN tag.attrs[name] ELSE ""

\* soup.find('input', {name: value}): the first such input as a one-element
\* sequence, or <<>>
FindInput(page, name, value) ==
    LET found == SelectSeq(page, LAMBDA b : b.k = "input" /\ Attr(b, name) = value)
    IN  IF found = <<>> THEN <<>> ELSE <<Head(found)>>

\* lines 117-136: the name of the field the roll number goes in, or ""
field_name(page) ==
    LET named == {i \in DOMAIN possible_field_names :
                    FindInput(page, "name", possible_field_names[i]) # <<>>}
        text_input == FindInput(page, "type", "text")
    IN  IF named # {} THEN possible_field_names[Min(named)]
        ELSE IF text_input # <<>> THEN Attr(text_input[1], "name")
        ELSE ""

\* lines 138-144: the field, then the named submit button
form_data(page, roll) ==
    LET submit_button == FindInput(page, "type", "submit")
        submit_name == IF submit_button = <<>> THEN "" ELSE Attr(submit_button[1], "name")
        keys == {field_name(page)} \cup (IF submit_name # "" THEN {submit_name} ELSE {})
    IN  [key \in keys |->
            IF key = submit_name
            THEN (IF "value" \in DOMAIN submit_button[1].attrs
                  THEN submit_button[1].attrs.value ELSE "Submit")
            ELSE roll]

\* lines 146-151: the URL the form is posted to
action_url(form_tag) ==
    LET action == IF "action" \in DOMAIN form_tag.attrs THEN form_tag.attrs.action
                  ELSE RESULTS_URL
    IN  IF IsSubAt(action, <<"/">>, 1)
        THEN <<"h", "t", "t", "p", "s", ":", "/", "/", "v", "i", "s", "h", "n", "u", ".", "e", "d", "u", ".", "i", "n">> \o action
        ELSE IF ~IsSubAt(action, <<"h", "t", "t", "p">>, 1) THEN RESULTS_URL
        ELSE action

\* lines 110-151 on the fetched page: the dict _try_post_request returns
\* early, or the submission to post
FormSubmission(page, roll) ==
    LET forms == SelectSeq(page, LAMBDA b : b.k = "form")
    IN  IF forms = <<>>
        THEN [found |-> FALSE,
              result |-> [success |-> FALSE, message |-> Msg("Form not found", <<>>)]]
        ELSE IF field_name(page) = ""
        THEN [found |-> FALSE,
              result |-> [success |-> FALSE,
                          message |-> Msg("Roll number input field not found", <<>>)]]
        ELSE [found |-> TRUE,
              action |-> action_url(Head(forms)),
              data |-> form_data(page, roll)]

\* lines 161-163: except Exception in _try_post_request
try_post_except(exc) == [success |-> FALSE, message |-> Msg("POST request failed", <<>>)]

try_get_except_reraises(exc) == Raise(exc)

\* lines 184-186: except Exception in _try_get_request
try_get_except(exc) == [success |-> FALSE, message |-> Msg("GET request failed", <<>>)]

\* line 182: no candidate parameter gave a result
get_failed_result == [success |-> FALSE, message |-> Msg("GET request failed", <<>>)]

\* lines 67-71
empty_roll_result ==
    [success |-> FALSE, message |-> Msg("Please provide a valid roll number.", <<>>)]

\* lines 85-88
unable_result ==
    [success |-> FALSE,
     message |-> Msg("Unable to retrieve results. The website might be temporarily unavailable or the roll number format might be incorrect.", <<>>)]

get_cgpa_except_request_only(exc) ==
    IF exc \in TransportFailures
    THEN [success |-> FALSE,
          message |-> Msg("Network error occurred. Please try again later.", <<>>)]
    ELSE Raise(exc)

\* lines 90-101: the two except clauses of get_cgpa
get_cgpa_except(exc) ==
    IF exc \in TransportFailures
    THEN [success |-> FALSE,
          message |-> Msg("Network error occurred. Please try again later.", <<>>)]
    ELSE [success |-> FALSE,
          message |-> Msg("An unexpected error occurred. Please try again later.", <<>>)]

roll_is_rejected_never(roll) == FALSE

\* line 67: if not roll_number
roll_is_rejected(roll) == roll = <<>>

\* line 78: if result['success']: return result
post_path_returns(r) == r.success

get_loop_returns_never(r) == FALSE

\* line 179: if result['success']: return result
get_loop_returns(r) == r.success

\* session.get / session.post are called as soon as the code reaches them:
\* nothing waits for a gap since the last request
send_time(t) == t

\* one entry of the log of requests: what was sent, how the transport
\* answered, and what the extractor made of the response (<<>> when it was
\* not asked)
Request(method, url, query, data, timeout, resp, extraction) ==
    [method |-> method, url |-> url, query |-> query, data |-> data,
     timeout |-> timeout,
     response |-> IF resp.error = "" THEN "ok" ELSE resp.error,
     result |-> extraction]

\* how long a response may take to arrive
Latencies == {d \in {0, 1} : send_time(now) + d <= MaxTime}

\* the request goes out and its response arrives
Exchange(request, lat) ==
    /\ requests' = Append(requests, request)
    /\ last_request_time' = <<send_time(now)>>
    /\ now' = send_time(now) + lat

\* get_cgpa returns v, or v leaves it as an exception
Finish(v) ==
    /\ result' = v
    /\ pc' = IF IsRaise(v) THEN "raised" ELSE "done"
    /\ param' = param

\* lines 77-81: _try_post_request gave v (a dict, or an exception it let through)
AfterPostPath(v) ==
    IF IsRaise(v) THEN Finish(get_cgpa_except(v.raise))
    ELSE IF post_path_returns(v) THEN Finish(v)
    ELSE /\ result' = v
         /\ pc' = "try_get"
         /\ param' = 1

\* lines 81-88: _try_get_request gave v
AfterGetPath(v) ==
    IF IsRaise(v) THEN Finish(get_cgpa_except(v.raise))
    ELSE IF v.success THEN Finish(v)
    ELSE Finish(unable_result)

\* lines 63-77: get_cgpa(arg) up to the call of _try_post_request.  arg is
\* [is_str, s]: a str s, or a value that is no str
GetCgpaEnter(arg) ==
    /\ requests' = <<>>
    /\ form' = <<>>
    /\ IF ~arg.is_str
       THEN /\ roll_number' = <<>>
            /\ Finish(get_cgpa_except("AttributeError"))
       ELSE /\ roll_number' = upper(strip(arg.s))
            /\ IF roll_is_rejected(upper(strip(arg.s)))
               THEN Finish(empty_roll_result)
               ELSE /\ result' = <<>>
                    /\ pc' = "try_post"
                    /\ param' = 0

\* lines 105-136: GET the results page and look for the form; sub is what
\* the form search makes of the page
PostPageStep(resp, lat, sub) ==
    /\ pc = "try_post"
    /\ lat \in Latencies
    /\ Exchange(Request("GET", RESULTS_URL, <<>>, <<>>, 10, resp, <<>>), lat)
    /\ IF resp.error # ""
       THEN /\ AfterPostPath(try_post_except(resp.error))
            /\ form' = form
       ELSE IF sub.found
       THEN /\ form' = [action |-> sub.action, data |-> sub.data]
            /\ pc' = "post_form"
            /\ UNCHANGED <<result, param>>
       ELSE /\ AfterPostPath(sub.result)
            /\ form' = form
    /\ UNCHANGED <<ex, roll_number, bot_vars>>

PostPage(resp, lat) ==
    PostPageStep(resp, lat, FormSubmission(resp.text, roll_number))

\* lines 153-159: POST the form and extract from the response; r is what the
\* extractor returns for the page
PostFormStep(resp, lat, r) ==
    /\ pc = "post_form"
    /\ lat \in Latencies
    /\ IF resp.error # ""
       THEN /\ Exchange(Request("POST", form.action, <<>>, form.data, 15, resp, <<>>), lat)
            /\ AfterPostPath(try_post_except(resp.error))
       ELSE /\ Exchange(Request("POST", form.action, <<>>, form.data, 15, resp, r), lat)
            /\ AfterPostPath(r)
    /\ UNCHANGED <<ex, roll_number, form, bot_vars>>

PostForm(resp, lat) ==
    PostFormStep(resp, lat, _extract_cgpa_from_html(resp.text, roll_number))

\* lines 171-186: one turn of the loop over possible_params; r is what the
\* extractor returns for the page
GetRequestStep(resp, lat, r) ==
    /\ pc = "try_get"
    /\ lat \in Latencies
    /\ IF resp.error # ""
       THEN /\ Exchange(Request("GET", RESULTS_URL, <<possible_params[param], roll_number>>,
                                <<>>, 10, resp, <<>>), lat)
            /\ AfterGetPath(try_get_except(resp.error))
       ELSE /\ Exchange(Request("GET", RESULTS_URL, <<possible_params[param], roll_number>>,
                                <<>>, 10, resp, r), lat)
            /\ IF get_loop_returns(r) THEN AfterGetPath(r)
               ELSE IF param < Len(possible_params)
               THEN /\ param' = param + 1
                    /\ UNCHANGED <<pc, result>>
               ELSE AfterGetPath(get_failed_result)
    /\ UNCHANGED <<ex, roll_number, form, bot_vars>>

GetRequest(resp, lat) ==
    GetRequestStep(resp, lat, _extract_cgpa_from_html(resp.text, roll_number))

(***************************************************************************)
(* get_cgpa on its own: any caller, any argument, one call after another.  *)
(***************************************************************************)
Str(s) == [is_str |-> TRUE, s |-> s]

NotAStr == [is_str |-> FALSE, s |-> <<>>]

\* arguments: empty, blank, well-formed and padded, malformed, not a str
RollArgs ==
    {Str(<<>>), Str(<<" ", "\n">>), Str(<<" ", "a", "1", " ">>),
     Str(<<"A", "-", "1">>), NotAStr}

Call(arg) ==
    /\ pc = "idle"
    /\ GetCgpaEnter(arg)
    /\ UNCHANGED <<ex, now, last_request_time, bot_vars>>

\* the caller takes the return value
Return ==
    /\ pc = "done"
    /\ pc' = "idle"
    /\ UNCHANGED <<ex, roll_number, form, param, result, requests, now,
                   last_request_time, bot_vars>>

\* time passes between two calls
Tick ==
    /\ pc = "idle"
    /\ now < MaxTime
    /\ now' = now + 1
    /\ UNCHANGED <<ex, pc, roll_number, form, param, result, requests,
                   last_request_time, bot_vars>>

GetCgpaInit == ExIdle /\ Idle

GetCgpaNext ==
    \/ \E arg \in RollArgs : Call(arg)
    \/ \E resp \in Responses, lat \in {0, 1} : PostPage(resp, lat)
    \/ \E resp \in Responses, lat \in {0, 1} : PostForm(resp, lat)
    \/ \E resp \in Responses, lat \in {0, 1} : GetRequest(resp, lat)
    \/ Return
    \/ Tick

SpecGetCgpa == GetCgpaInit /\ [][GetCgpaNext]_vars

(***************************************************************************)
(* The bot: the handlers main() registers and context.user_data.           *)
(*                                                                         *)
(* The application handles one update at a time, and requests blocks the   *)
(* event loop, so a handler runs to its end before the next update is      *)
(* taken.  update is the message being handled (or the last one handled),  *)
(* with the handler that took it, whether the user's flag was set when it  *)
(* arrived and how the handler ended; replies are the messages the handler *)
(* asked Telegram to send or edit for it.  A send may fail, which raises   *)
(* out of the handler unless a try block of the handler encloses it.       *)
(***************************************************************************)
\* dict.get(key, default)
get(d, key, default) == IF d[key] = Absent THEN default ELSE d[key][1]

\* dict.pop(key, None)
pop(d, key) == [d EXCEPT ![key] = Absent]

\* d[key] = value
set(d, key, value) == [d EXCEPT ![key] = <<value>>]

\* filters.COMMAND: the text starts with a bot command
is_command(text) == IsSubAt(text, <<"/">>, 1)

yes_no_words == {<<"y", "e", "s">>, <<"y">>, <<"n", "o">>, <<"n">>}

yes_no_filter_with_pdf(text) == lower(text) \in yes_no_words \cup {<<"p", "d", "f">>}

\* filters.Regex(r'(?i)^(yes|y|no|n)$'): re.search, where $ also matches
\* before a final newline
yes_no_filter(text) ==
    \/ lower(text) \in yes_no_words
    \/ /\ text # <<>>
       /\ text[Len(text)] = "\n"
       /\ lower(SubSeq(text, 1, Len(text) - 1)) \in yes_no_words

\* line 530: re.match(r'^[A-Za-z0-9]+$', user_input)
roll_number_format(user_input) ==
    /\ user_input # <<>>
    /\ LET body == IF user_input[Len(user_input)] = "\n"
                   THEN SubSeq(user_input, 1, Len(user_input) - 1)
                   ELSE user_input
       IN  body # <<>> /\ \A i \in 1..Len(body) : IsAlnum(body[i])

clean_up_roll_number_only(d) == pop(d, "roll_number")

\* lines 635-636, 684-685, 695-696: clean up user data
clean_up(d) == pop(pop(d, "roll_number"), "html_content")

\* what a handler leaves behind: the user's dict, the messages it asked to
\* send, and whether it returned or an exception left it
Handled(d, sent, outcome) == [user_data |-> d, replies |-> sent, outcome |-> outcome]

\* a handler whose last send is `kind`: it returns with `d` if the send is
\* delivered, and the exception leaves it with `kept` if not
SendLast(sent, kind, ok, d, kept) ==
    IF ok THEN Handled(d, Append(sent, kind), "returned")
    ELSE Handled(kept, Append(sent, kind), "raised")

\* lines 676-685: except Exception of the PDF generation, then the clean up
pdf_except(sent, sends, d) ==
    SendLast(sent, "error_generating_pdf", sends[4], clean_up(d), d)

\* lines 639-685: the user said yes and the data is there; pdf is what
\* generate_marksheet_pdf returned ("file" or "none")
send_pdf(d, pdf, sends) ==
    IF ~sends[1] THEN Handled(d, <<"generating_pdf">>, "raised")
    ELSE IF pdf = "file"
    THEN IF ~sends[2] THEN pdf_except(<<"generating_pdf", "document">>, sends, d)
         ELSE IF ~sends[3]
         THEN pdf_except(<<"generating_pdf", "document", "pdf_sent">>, sends, d)
         ELSE Handled(clean_up(d), <<"generating_pdf", "document", "pdf_sent">>, "returned")
    ELSE IF ~sends[3]
         THEN pdf_except(<<"generating_pdf", "failed_to_generate_pdf">>, sends, d)
         ELSE Handled(clean_up(d), <<"generating_pdf", "failed_to_generate_pdf">>, "returned")

\* lines 612-706: handle_pdf_confirmation on the user's dict d
pdf_confirmation(d, text, pdf, sends) ==
    IF ~get(d, "awaiting_pdf_confirmation", FALSE)
    THEN Handled(d, <<>>, "returned")
    ELSE LET popped == pop(d, "awaiting_pdf_confirmation")
             user_response == lower(strip(text))
         IN  IF user_response \in {<<"y", "e", "s">>, <<"y">>}
             THEN IF get(popped, "roll_number", <<>>) = <<>>
                        \/ get(popped, "html_content", <<>>) = <<>>
                  THEN SendLast(<<>>, "missing_data", sends[1], clean_up(popped), popped)
                  ELSE send_pdf(popped, pdf, sends)
             ELSE IF user_response \in {<<"n", "o">>, <<"n">>}
             THEN SendLast(<<>>, "no_pdf", sends[1], clean_up(popped), popped)
             ELSE SendLast(<<>>, "please_respond", sends[1],
                           set(popped, "awaiting_pdf_confirmation", TRUE), popped)

\* whether each of the up to four sends of a handler is delivered (the
\* fourth is the one of its except clause): all are, Telegram fails from
\* the k-th on, or the k-th alone fails
Sends ==
    {[i \in 1..4 |-> i < k] : k \in 1..5} \cup {[i \in 1..4 |-> i # k] : k \in 1..3}

PdfOutcomes == {"file", "none"}

\* the update as the handler found it
Update(u, text, handler, outcome) ==
    [user |-> u, text |-> text,
     awaiting |-> get(user_data[u], "awaiting_pdf_confirmation", FALSE),
     handler |-> handler, outcome |-> outcome]

\* a handler that ran to its end in one step
HandlerStep(u, text, handler, h) ==
    /\ pc = "idle"
    /\ update' = Update(u, text, handler, h.outcome)
    /\ user_data' = [user_data EXCEPT ![u] = h.user_data]
    /\ replies' = h.replies
    /\ UNCHANGED <<ex, extractor_vars>>

\* lines 741-744: a yes/y/no/n text goes to handle_pdf_confirmation
PdfConfirmationUpdate(u, text, pdf, sends) ==
    /\ ~is_command(text)
    /\ yes_no_filter(text)
    /\ HandlerStep(u, text, "handle_pdf_confirmation",
                   pdf_confirmation(user_data[u], text, pdf, sends))

\* lines 727-728, 449-511: /start and /help only reply
CommandUpdate(u, text, sends) ==
    /\ is_command(text)
    /\ HandlerStep(u, text, "command",
                   SendLast(<<>>, "help", sends[1], user_data[u], user_data[u]))

roll_number_checks_validate_first(d, user_input, sends) ==
    IF user_input = <<>>
    THEN SendLast(<<>>, "provide_roll_number", sends[1], d, d)
    ELSE IF ~roll_number_format(user_input)
    THEN SendLast(<<>>, "invalid_format", sends[1], d, d)
    ELSE IF ~sends[1]
    THEN Handled(pop(d, "awaiting_pdf_confirmation"), <<"processing">>, "raised")
    ELSE Handled(pop(d, "awaiting_pdf_confirmation"), <<"processing">>, "get_cgpa")

\* lines 515-543: handle_roll_number up to the processing message
roll_number_checks(d, user_input, sends) ==
    LET popped == pop(d, "awaiting_pdf_confirmation")
    IN  IF user_input = <<>>
        THEN SendLast(<<>>, "provide_roll_number", sends[1], popped, popped)
        ELSE IF ~roll_number_format(user_input)
        THEN SendLast(<<>>, "invalid_format", sends[1], popped, popped)
        ELSE IF ~sends[1] THEN Handled(popped, <<"processing">>, "raised")
        ELSE Handled(popped, <<"processing">>, "get_cgpa")

\* lines 746-749, 513-547: any other text goes to handle_roll_number, which
\* replies and returns or calls get_cgpa
RollNumberStep(u, text, h) ==
    /\ pc = "idle"
    /\ ~is_command(text)
    /\ ~yes_no_filter(text)
    /\ update' = Update(u, text, "handle_roll_number", h.outcome)
    /\ user_data' = [user_data EXCEPT ![u] = h.user_data]
    /\ replies' = h.replies
    /\ IF h.outcome = "get_cgpa"
       THEN GetCgpaEnter(Str(strip(text)))
       ELSE UNCHANGED <<pc, roll_number, form, param, result, requests>>
    /\ UNCHANGED <<ex, now, last_request_time>>

RollNumberUpdate(u, text, sends) ==
    RollNumberStep(u, text, roll_number_checks(user_data[u], strip(text), sends))

store_keeps_roll_number(d, user_input, r) ==
    set(set(d, "awaiting_pdf_confirmation", TRUE),
        "html_content", IF "html_content" \in DOMAIN r THEN r.html_content ELSE <<>>)

\* lines 578-581: store data for PDF generation
store(d, user_input, r) ==
    set(set(set(d, "awaiting_pdf_confirmation", TRUE), "roll_number", user_input),
        "html_content", IF "html_content" \in DOMAIN r THEN r.html_content ELSE <<>>)

\* lines 603-610: except Exception of handle_roll_number
roll_number_except(sent, sends, d) ==
    SendLast(sent, "error_occurred", sends[4], d, d)

\* lines 549-610: handle_roll_number once get_cgpa has returned r; its
\* frame, and get_cgpa's, end here
roll_number_result(d, user_input, r, sends) ==
    IF r.success
    THEN IF ~sends[2] THEN roll_number_except(<<"processing", "results_found">>, sends, d)
         ELSE IF ~sends[3]
         THEN roll_number_except(<<"processing", "results_found", "pdf_question">>, sends, d)
         ELSE Handled(store(d, user_input, r),
                      <<"processing", "results_found", "pdf_question">>, "returned")
    ELSE IF ~sends[2] THEN roll_number_except(<<"processing", "unable">>, sends, d)
         ELSE Handled(d, <<"processing", "unable">>, "returned")

RollNumberDoneStep(h) ==
    /\ pc = "done"
    /\ update.handler = "handle_roll_number"
    /\ pc' = "idle"
    /\ update' = [update EXCEPT !.outcome = h.outcome]
    /\ user_data' = [user_data EXCEPT ![update.user] = h.user_data]
    /\ replies' = h.replies
    /\ roll_number' = <<>>
    /\ form' = <<>>
    /\ param' = 0
    /\ result' = <<>>
    /\ requests' = <<>>
    /\ UNCHANGED <<ex, now, last_request_time>>

RollNumberDone(sends) ==
    RollNumberDoneStep(roll_number_result(user_data[update.user], strip(update.text),
                                          result, sends))

\* the texts users send: answers in several spellings, pdf, a well-formed
\* roll number, a malformed one, a command
Texts ==
    {<<"y", "e", "s">>, <<"Y">>, <<"N", "o">>, <<"n">>, <<"p", "d", "f">>, <<"2", "1", "a", "9">>, <<"A", "-", "1">>, <<"/", "s", "t", "a", "r", "t">>}

\* how the site answers the bot's requests
BotResponses ==
    {[error |-> "Timeout", text |-> <<>>]}
        \cup {[error |-> "", text |-> p] :
                p \in {page_form_rollno, page_text_cgpa, page_plain}}

Init == ExIdle /\ Idle

Next ==
    \/ \E u \in Users, text \in Texts, pdf \in PdfOutcomes, sends \in Sends :
          PdfConfirmationUpdate(u, text, pdf, sends)
    \/ \E u \in Users, text \in Texts, sends \in Sends : CommandUpdate(u, text, sends)
    \/ \E u \in Users, text \in Texts, sends \in Sends : RollNumberUpdate(u, text, sends)
    \/ \E resp \in BotResponses : PostPage(resp, 0)
    \/ \E resp \in BotResponses : PostForm(resp, 0)
    \/ \E resp \in BotResponses : GetRequest(resp, 0)
    \/ \E sends \in Sends : RollNumberDone(sends)

Spec == Init /\ [][Next]_vars

(***************************************************************************)
(* Properties of get_cgpa, under SpecGetCgpa.                              *)
(***************************************************************************)
IsPageGet(q) == q.method = "GET" /\ q.query = <<>>

IsPost(q) == q.method = "POST"

IsFallbackGet(q) == q.method = "GET" /\ q.query # <<>>

\* the extractor marked the response of q successful
Accepted(q) == q.result # <<>> /\ q.result.success

LastRequest == requests[Len(requests)]

\* a roll number that fails the format check: after strip().upper() it is
\* empty or holds a character outside A-Z and 0-9
C1_FailsFormat(roll) ==
    \/ roll = <<>>
    \/ \E i \in 1..Len(roll) : roll[i] \notin Range(UpperLetters) \cup Range(DigitChars)

MAX_ATTEMPTS == 3

\* the attempts a call has made: each begins with the GET of the results page
Attempts == Cardinality({i \in DOMAIN requests : IsPageGet(requests[i])})

\* C4: the whole POST-then-GET attempt is retried up to 3 times, so that
\* transport failures on attempts 1 and 2 followed by an extractable answer
\* on attempt 3 give success = true: a call whose attempt ended in a transport
\* failure returns failure only after the third attempt.
C4_RetriedUpToThreeTimes ==
    (/\ pc = "done"
     /\ requests # <<>>
     /\ LastRequest.response \in TransportFailures) =>
        /\ result.success = FALSE
        /\ Attempts = MAX_ATTEMPTS

\* the minimum gap between requests the specification gives
MIN_GAP == 1

\* C5: the first send of a call happens at least MIN_GAP after the previous
\* request of the process (the previous call's), whoever made the calls.
C5_MinGapBetweenCalls ==
    [][(/\ requests = <<>>
        /\ requests' # <<>>
        /\ last_request_time # <<>>) =>
            last_request_time'[1] - last_request_time[1] >= MIN_GAP]_vars

\* the order of the candidate query parameters
C6_ParamOrder == <<"rollno", "roll_no", "regdno", "regno", "student_id">>

\* the fallback GETs among the requests, in the order sent
FallbackGets == SelectSeq(requests, IsFallbackGet)

\* C6: the POST path (page GET, form POST) runs before any fallback GET; the
\* fallback runs if and only if the POST path did not yield success = true;
\* it tries the candidate parameters in their fixed order; no request follows
\* the first response the extractor marks successful, whose outcome is returned.
C6_PostThenGetFallback ==
    /\ requests # <<>> => IsPageGet(requests[1])
    /\ \A i \in DOMAIN requests :
        /\ IsPageGet(requests[i]) => i = 1
        /\ IsPost(requests[i]) => i = 2
        /\ IsFallbackGet(requests[i]) =>
              \A j \in DOMAIN requests : j > i => IsFallbackGet(requests[j])
        /\ Accepted(requests[i]) =>
              /\ i = Len(requests)
              /\ pc \in {"done", "idle"}
              /\ result = requests[i].result
    /\ \A k \in DOMAIN FallbackGets :
        /\ k <= Len(C6_ParamOrder)
        /\ FallbackGets[k].query = <<C6_ParamOrder[k], roll_number>>
    /\ (pc = "done" /\ roll_number # <<>>) =>
        (FallbackGets # <<>> <=>
            ~\E i \in DOMAIN requests : IsPost(requests[i]) /\ Accepted(requests[i]))

\* a call whose form POST was answered without a CGPA and whose second
\* fallback GET was marked successful
C6_Witness ==
    /\ pc = "done"
    /\ Len(requests) = 4
    /\ IsPost(requests[2])
    /\ requests[2].response = "ok"
    /\ ~Accepted(requests[3])
    /\ Accepted(requests[4])
    /\ result.success

\* C7: a response the extractor answers with the not-found outcome ends the
\* call: no request follows it and get_cgpa returns the not-found message.
C7_NotFoundReportedImmediately ==
    \A i \in DOMAIN requests :
        requests[i].result = not_found_result(roll_number) =>
            /\ i = Len(requests)
            /\ pc \in {"done", "idle"}
            /\ result = not_found_result(roll_number)

\* C8: get_cgpa never raises; it returns a dict with a boolean success and a
\* message, and success is true only when the last response was a page the
\* extractor marked successful (every error path gives success = false).
C8_NeverRaises ==
    /\ pc # "raised"
    /\ pc = "done" =>
        /\ {"success", "message"} \subseteq DOMAIN result
        /\ result.success \in BOOLEAN
        /\ result.success =>
            /\ requests # <<>>
            /\ LastRequest.response = "ok"
            /\ result = LastRequest.result

\* a call that met a timeout on the page GET and a connection error in the
\* fallback, and returned
C8_Witness ==
    /\ pc = "done"
    /\ Len(requests) = 2
    /\ requests[1].response = "Timeout"
    /\ requests[2].response = "ConnectionError"
    /\ result.success = FALSE

(***************************************************************************)
(* Properties of the bot, under Spec.                                      *)
(***************************************************************************)
\* the session of the user whose message is in update
Session == user_data[update.user]

\* the message in update was handled as an acceptance of the PDF
HandledAsAcceptance ==
    /\ update.handler = "handle_pdf_confirmation"
    /\ replies # <<>>
    /\ replies[1] \in {"generating_pdf", "missing_data"}

\* the message in update was handled as a decline of the PDF
HandledAsDecline ==
    /\ update.handler = "handle_pdf_confirmation"
    /\ replies # <<>>
    /\ replies[1] = "no_pdf"

PdfFailureReported ==
    /\ update.handler = "handle_pdf_confirmation"
    /\ update.awaiting
    /\ update.outcome = "returned"
    /\ replies # <<>>
    /\ replies[Len(replies)] \in {"failed_to_generate_pdf", "error_generating_pdf"}

\* C11: when PDF generation fails after the user answered yes, the failure
\* is reported and the stored roll_number and html_content are still in the
\* user's session afterwards.
C11_DataKeptAfterPdfFailure ==
    PdfFailureReported =>
        /\ Session.roll_number # Absent
        /\ Session.html_content # Absent

\* the user's confirmation is pending
Pending(d) == d.awaiting_pdf_confirmation # Absent

\* C12, in every state: a pending session holds a non-empty roll_number and
\* a non-empty html_content, and no handler ever took the missing-data branch
C12_PendingHasData ==
    /\ \A u \in Users :
          Pending(user_data[u]) =>
              /\ get(user_data[u], "roll_number", <<>>) # <<>>
              /\ get(user_data[u], "html_content", <<>>) # <<>>
    /\ \A i \in DOMAIN replies : replies[i] # "missing_data"

\* C12, in every step: a pending session gets its content only when
\* handle_roll_number stores the text of the user's message being handled and
\* the page of its successful extraction, and a new roll-number message of
\* the user ends the pending state before anything else
C12_PendingSetByLatestQuery ==
    \A u \in Users :
        /\ (Pending(user_data'[u]) /\ user_data'[u] # user_data[u]) =>
              /\ pc = "done"
              /\ update.user = u
              /\ update.handler = "handle_roll_number"
              /\ result.success
              /\ user_data'[u].roll_number = <<strip(update.text)>>
              /\ user_data'[u].html_content = <<result.html_content>>
        /\ (pc = "idle" /\ update'.handler = "handle_roll_number" /\ update'.user = u) =>
              ~Pending(user_data'[u])

\* C12: whenever awaiting_pdf_confirmation is set, roll_number and
\* html_content are present, non-empty and those of the user's most recent
\* roll-number message, whose extraction succeeded; the missing-data branch
\* of handle_pdf_confirmation is never taken.
C12_PendingDataIsLatestQuery ==
    [](C12_PendingHasData) /\ [][C12_PendingSetByLatestQuery]_vars

\* both users are pending, each with the data of their own query, the second
\* user's stored after an earlier query of theirs had been answered
C12_Witness ==
    /\ Pending(user_data["u1"])
    /\ user_data["u1"].roll_number = <<<<"2", "1", "a", "9">>>>
    /\ Pending(user_data["u2"])
    /\ user_data["u2"].roll_number = <<<<"p", "d", "f">>>>
    /\ update.user = "u2"
    /\ update.outcome = "returned"

\* the place of a request in the order page GET, form POST, fallback GETs
RequestRank(q) == IF IsPageGet(q) THEN 1 ELSE IF IsPost(q) THEN 2 ELSE 3

\* the place of a position of get_cgpa in the order of its steps
PcRank(p) ==
    IF p = "try_post" THEN 1 ELSE IF p = "post_form" THEN 2
    ELSE IF p = "try_get" THEN 3 ELSE 4

\* what identifies a request: a request is repeated when two agree on it
RequestKey(q) == <<q.method, q.url, q.query, q.data>>

\* C13, in every state: at most 7 requests, of which at most 1 page GET, at
\* most 1 form POST and at most 5 fallback GETs for distinct candidate
\* parameter names, in that order, none repeated
C13_RequestsBounded ==
    /\ Len(requests) <= 7
    /\ Cardinality({i \in DOMAIN requests : IsPageGet(requests[i])}) <= 1
    /\ Cardinality({i \in DOMAIN requests : IsPost(requests[i])}) <= 1
    /\ Cardinality({i \in DOMAIN requests : IsFallbackGet(requests[i])}) <= 5
    /\ \A i, j \in DOMAIN requests :
          i < j =>
              /\ RequestRank(requests[i]) <= RequestRank(requests[j])
              /\ RequestKey(requests[i]) # RequestKey(requests[j])
              /\ (IsFallbackGet(requests[i]) /\ IsFallbackGet(requests[j])) =>
                    requests[i].query[1] # requests[j].query[1]
    /\ \A i \in DOMAIN requests :
          IsFallbackGet(requests[i]) =>
              requests[i].query[1] \in {"rollno", "roll_no", "regdno", "regno", "student_id"}

\* C13, in every step of a call in progress: exactly one request is sent
\* and the call moves to a later step, or to the next candidate parameter
C13_CallAdvances ==
    pc \in {"try_post", "post_form", "try_get"} =>
        /\ Len(requests') = Len(requests) + 1
        /\ PcRank(pc') >= PcRank(pc)
        /\ pc' # "idle"
        /\ pc' = pc => (pc = "try_get" /\ param' = param + 1)

\* C13: every get_cgpa call ends after at most 7 HTTP requests (1 page GET,
\* at most 1 form POST, at most 5 fallback GETs, one per candidate parameter
\* name), in that order, with no request repeated and no way back to an
\* earlier step, whatever the upstream answers.
C13_BoundedRequests ==
    [](C13_RequestsBounded) /\ [][C13_CallAdvances]_vars

\* a call that used all 7 requests and returned
C13_Witness ==
    /\ pc = "done"
    /\ Len(requests) = 7
    /\ IsPageGet(requests[1])
    /\ IsPost(requests[2])
    /\ requests[7].query[1] = "student_id"

\* the message in update came while its user's confirmation was pending
\* and is no yes/y/no/n
OtherTextWhilePending ==
    /\ update # NoUpdate
    /\ update.awaiting
    /\ lower(update.text) \notin {<<"y", "e", "s">>, <<"y">>, <<"n", "o">>, <<"n">>}

\* the confirmation that was pending when the message in update came is
\* gone: the user is pending only if this very message was fetched with
\* success and asked the question anew
PendingCancelled ==
    /\ update.handler = "handle_roll_number"
    /\ Pending(Session) =>
          /\ pc = "idle"
          /\ update.outcome = "returned"
          /\ replies = <<"processing", "results_found", "pdf_question">>
          /\ Session.roll_number = <<strip(update.text)>>

\* the user is never asked to answer yes or no again
NeverReprompted == \A i \in DOMAIN replies : replies[i] # "please_respond"

\* a yes/y/no/n of a user who is not pending is ignored: no reply, no change
YesNoIgnoredWhenNotPending ==
    (/\ pc = "idle"
     /\ update'.handler = "handle_pdf_confirmation"
     /\ ~Pending(user_data[update'.user])) =>
        /\ replies' = <<>>
        /\ user_data' = user_data
        /\ pc' = "idle"

C15_TransportFailureEndsFallback ==
    \A i \in DOMAIN requests :
        IsFallbackGet(requests[i]) =>
            /\ requests[i].response \in TransportFailures =>
                  /\ i = Len(requests)
                  /\ pc \in {"done", "idle"}
                  /\ result = unable_result
            /\ i < Len(requests) =>
                  /\ requests[i].response = "ok"
                  /\ requests[i].result # <<>>
                  /\ ~requests[i].result.success
                  /\ IsFallbackGet(requests[i + 1])

\* the request for the second candidate timed out after the first was
\* answered with a page without a CGPA: the call returned with three
\* candidates never requested
C15_Witness ==
    /\ pc = "done"
    /\ FallbackGets # <<>>
    /\ Len(FallbackGets) = 2
    /\ FallbackGets[1].response = "ok"
    /\ FallbackGets[2].query[1] = "roll_no"
    /\ FallbackGets[2].response = "Timeout"
    /\ result.success = FALSE

====
